---- MODULE Spec2Model ----
(***************************************************************************)
(* PromoStudio (emmoscript/mediaplay): the application shell with its      *)
(* event log, the test-mode task tracker (TestModePanel) and the photo     *)
(* editor (PhotoEditor), as state machines.                                *)
(*                                                                         *)
(* React is modelled as follows.  A handler's setState calls with          *)
(* functional updaters are queued and applied in call order by the render  *)
(* that follows the handler; the effects of that render run right after    *)
(* its commit and before the next handler.  An action is therefore one     *)
(* handler (or one asynchronous callback) together with the renders and    *)
(* effects it causes.  A value a handler reads from its closure is the     *)
(* value of the render in which the handler was created.                   *)
(*                                                                         *)
(* An optional value (T | null) is the empty sequence or a one-element     *)
(* sequence.                                                               *)
(***************************************************************************)
EXTENDS Integers, Sequences, FiniteSets, TLC

VARIABLES
    now,                \* the clock read by Date.now()
    events,             \* useEventLog: the event log
    logCalls,           \* history: number of calls of log() so far
    activeSection,      \* App: the section shown
    testMode,           \* App: whether TestModePanel is mounted
    taskState,          \* TestModePanel: Record<TaskKey, TaskState>
    loading3D,          \* App: loading indicator shown
    show3D,             \* App: ThreeCanvas shown
    timers,             \* App: pending setTimeout callbacks of onView3D
    feedback,           \* App: the feedback banner
    scheduledPosts,     \* App: the scheduled-post list
    editor,             \* PhotoEditor: its useState values
    reads,              \* PhotoEditor: FileReaders that have not called back
    requests,           \* PhotoEditor: onExport/onApplyCropPreview calls awaiting getCroppedImg
    reqCount,           \* number of such calls so far (names the calls and their object URLs)
    revoked,            \* per object URL: the number of URL.revokeObjectURL calls on it
    created,            \* the object URLs URL.createObjectURL has returned
    propCalls,          \* the calls PhotoEditor made to its props in the last step
    trace,              \* PhotoEditor: the outward calls, in order, of the last step if
                        \* it finished an export or a preview
    form,               \* App: manualTitle, description, scheduledAtLocal
    dl,                 \* useEventLog.download: downloads so far, browser calls of the last one
    three               \* ThreeCanvas: what its mount effect holds

vars == <<now, events, logCalls, activeSection, testMode, taskState,
          loading3D, show3D, timers, feedback, scheduledPosts,
          editor, reads, requests, reqCount, revoked, created, propCalls, trace,
          form, dl, three>>

editorVars == <<editor, reads, requests, reqCount, revoked, created, propCalls,
                trace>>

shellVars == <<now, events, logCalls, testMode, taskState, loading3D, show3D,
               timers, feedback, scheduledPosts, form, dl, three>>

appVars == <<activeSection, loading3D, show3D, timers, feedback, scheduledPosts>>

view3DVars == <<loading3D, show3D, timers>>

----------------------------------------------------------------------------
(* Bounds *)

MaxTime == 1

MaxLog == 3

MaxTimers == 1

\* Tasks that may be started (not Pending) at the same time.
MaxActive == 1

\* Preview and export requests made in all.
MaxRequests == 2

None == <<>>

Some(v) == <<v>>

Min(a, b) == IF a <= b THEN a ELSE b

Last(s) == s[Len(s)]

\* The values a further Date.now() can return once the clock showed t.
ClockReads(t) == t .. Min(t + 1, MaxTime)

----------------------------------------------------------------------------
(* Event log: useEventLog *)

\* t0 = useMemo(() => Date.now(), []): the clock at the first render, which
\* is where the clock of the model starts.
t0 == 0

LogEvent(type, t) == [type |-> type, t |-> t]

\* Mutant of logUpdater: setEvents([...events, e]), which appends to the log
\* of the render the handler belongs to instead of the queued value.
logUpdaterStale(prev, e) == Append(events, e)

\* Mutant of logUpdater: setEvents((prev) => [e, ...prev]), which puts the
\* newest event first.
logUpdaterPrepend(prev, e) == <<e>> \o prev

\* log(): setEvents((prev) => [...prev, e])
logUpdater(prev, e) == Append(prev, e)

\* The render applies the queued updaters of a handler in call order.
RECURSIVE applyLogCalls(_, _)
applyLogCalls(prev, calls) ==
    IF calls = <<>> THEN prev
    ELSE applyLogCalls(logUpdater(prev, Head(calls)), Tail(calls))

----------------------------------------------------------------------------
(* App *)

Sections == {"designer", "scheduler"}

\* The message handleFeedback shows for each event type it is called with.
feedbackMsg(type) ==
    CASE type = "sound_played"        -> "Sonido reproducido"
      [] type = "sound_error"         -> "Error al reproducir sonido"
      [] type = "post_scheduled"      -> "Publicacion programada"
      [] type = "voice_match_false"   -> "Comando no reconocido"
      [] type = "loader_shown"        -> "Cargando animacion"
      [] type = "three_visible"       -> "Animacion cargada"
      [] type = "photo_upload"        -> "Imagen cargada"
      [] type = "filter_change"       -> "Filtro aplicado"
      [] type = "photo_exported"      -> "Edicion exportada"
      [] type = "photo_export_error"  -> "Error al exportar"
      [] type = "photo_preview_ready" -> "Vista previa generada"
      [] type = "photo_preview_error" -> "Error al generar vista previa"

DefaultTitle == "Publicacion programada"

\* Mutant of prependPost: setScheduledPosts([post]), which drops the list.
onlyNewPost(prev, post) == <<post>>

\* setScheduledPosts((prev) => [post, ...prev])
prependPost(prev, post) == <<post>> \o prev

\* The event types PhotoEditor reports through onFeedback, as far as the
\* shell is concerned.
EditorFeedbackInputs == {"photo_preview_ready", "photo_exported", "filter_change"}

----------------------------------------------------------------------------
(* App: the scheduling form *)

\* Posts saved with the form in all.
MaxPosts == 2

\* new Date(s).getTime() is a number or NaN; NaN is the empty sequence, a
\* number t the sequence <<t>>.
NaN == <<>>

\* The value of the datetime-local input for the minute the clock shows as
\* 0, which is the minute App is mounted in, and for a later minute.  The
\* clock counts minutes.
MountLocal == "1970-01-01T00:00"

LaterLocal == "1970-01-01T00:05"

\* useState initial values of manualTitle, description, scheduledAtLocal
initialForm ==
    [manualTitle      |-> DefaultTitle,
     description      |-> "",
     scheduledAtLocal |-> MountLocal]

\* What can be typed into the form.  A datetime-local input holds a valid
\* local date-time or, once cleared, the empty string.
TitleInputs == {"", "   ", "  Test Post "}

DescriptionInputs == {"", " x "}

DateInputs == {"", MountLocal, LaterLocal}

\* String.prototype.trim on the strings the form can hold
trim(str) ==
    CASE str = "   "          -> ""
      [] str = "  Test Post " -> "Test Post"
      [] str = " x "          -> "x"
      [] OTHER                -> str

\* new Date(scheduledAtLocal).getTime(): the string is read as a local
\* date-time; the empty string gives an Invalid Date, whose time is NaN.
getTime(local) ==
    CASE local = MountLocal -> Some(0)
      [] local = LaterLocal -> Some(5)
      [] OTHER              -> NaN

\* The title, description and date inputs: setManualTitle, setDescription,
\* setScheduledAtLocal with e.target.value
setManualTitle(value) ==
    /\ activeSection = "designer"
    /\ form.manualTitle # value
    /\ form' = [form EXCEPT !.manualTitle = value]
    /\ UNCHANGED <<now, events, logCalls, testMode, taskState, appVars,
                   editorVars, dl, three>>

setDescription(value) ==
    /\ activeSection = "designer"
    /\ form.description # value
    /\ form' = [form EXCEPT !.description = value]
    /\ UNCHANGED <<now, events, logCalls, testMode, taskState, appVars,
                   editorVars, dl, three>>

setScheduledAtLocal(value) ==
    /\ activeSection = "designer"
    /\ form.scheduledAtLocal # value
    /\ form' = [form EXCEPT !.scheduledAtLocal = value]
    /\ UNCHANGED <<now, events, logCalls, testMode, taskState, appVars,
                   editorVars, dl, three>>

----------------------------------------------------------------------------
(* TestModePanel *)

TaskKeys == {"photo_edit", "sound", "voice", "three"}

TASKS == [photo_edit |-> {"photo_preview_ready", "photo_exported"},
          sound      |-> {"sound_played"},
          voice      |-> {"post_scheduled", "voice_match_true"},
          three      |-> {"three_visible"}]

successEvents(key) == TASKS[key]

TaskState(running, startT, endT) ==
    [running |-> running, startT |-> startT, endT |-> endT]

initialTaskState == [k \in TaskKeys |-> TaskState(FALSE, None, None)]

\* Mutant of autoComplete: the effect without its guard on the task's
\* running flag and start time.
autoCompleteUnguarded(ts, evs) ==
    IF Len(evs) = 0 THEN ts
    ELSE LET last == Last(evs) IN
         [k \in TaskKeys |->
            LET st == ts[k] IN
            IF st.endT # None THEN st
            ELSE IF last.type \in successEvents(k)
                 THEN TaskState(FALSE, st.startT, Some(last.t))
                 ELSE st]

\* Mutant of autoComplete: the effect guarded by the start time alone, so
\* that a task that is no longer running is completed again.
autoCompleteOnStarted(ts, evs) ==
    IF Len(evs) = 0 THEN ts
    ELSE LET last == Last(evs) IN
         [k \in TaskKeys |->
            LET st == ts[k] IN
            IF st.startT = None THEN st
            ELSE IF last.type \in successEvents(k)
                 THEN TaskState(FALSE, st.startT, Some(last.t))
                 ELSE st]

\* One run of the effect of TestModePanel: it looks at the last event only,
\* reads each task from the rendered taskState (st) and replaces the record
\* of every running task whose success set holds the last event's type.
autoComplete(ts, evs) ==
    IF Len(evs) = 0 THEN ts
    ELSE LET last == Last(evs) IN
         [k \in TaskKeys |->
            LET st == ts[k] IN
            IF ~st.running \/ st.startT = None \/ st.endT # None THEN st
            ELSE IF last.type \in successEvents(k)
                 THEN TaskState(FALSE, st.startT, Some(last.t))
                 ELSE st]

\* The effect depends on [events, taskState]: it runs after every render in
\* which one of them changed, hence again after its own setTaskState.
RECURSIVE runEffect(_, _)
runEffect(ts, evs) ==
    LET next == autoComplete(ts, evs) IN
    IF next = ts THEN ts ELSE runEffect(next, evs)

\* Mutant of startTaskUpdater: the previous end time is not cleared.
startTaskKeepsEnd(prev, key, t) ==
    [prev EXCEPT ![key] = TaskState(TRUE, Some(t), prev[key].endT)]

\* startTask: setTaskState((prev) => ({...prev, [key]: {running: true, startT: t, endT: null}}))
startTaskUpdater(prev, key, t) ==
    [prev EXCEPT ![key] = TaskState(TRUE, Some(t), None)]

\* Mutant of resetTaskUpdater: setTaskState of the initial record of every
\* task.
resetAllUpdater(prev, key) == initialTaskState

\* resetTask
resetTaskUpdater(prev, key) ==
    [prev EXCEPT ![key] = TaskState(FALSE, None, None)]

Pending(st) == ~st.running /\ st.startT = None /\ st.endT = None

Running(st) == st.running /\ st.startT # None /\ st.endT = None

Completed(st) == ~st.running /\ st.startT # None /\ st.endT # None

\* Mutant of elapsedMs: (nowFn() - st.startT), which keeps counting after
\* the task is completed.
elapsedIgnoresEnd(st, t) ==
    IF st.startT = None THEN 0 ELSE t - st.startT[1]

\* rows: the elapsed time shown for a task
elapsedMs(st, t) ==
    IF st.startT = None THEN 0
    ELSE (IF st.endT # None THEN st.endT[1] ELSE t) - st.startT[1]

----------------------------------------------------------------------------
(* Steps of the shell *)

\* A handler that made the log calls `calls`: the render applies them, then
\* the effect of TestModePanel (when mounted) runs on the new log.
Logged(calls, ts) ==
    /\ Len(events) + Len(calls) <= MaxLog
    /\ events' = applyLogCalls(events, calls)
    /\ logCalls' = logCalls + Len(calls)
    /\ taskState' = IF testMode THEN runEffect(ts, events') ELSE ts

\* The same without the bound on the log, for the steps whose
\* specifications bound the log themselves.
LoggedUnbounded(calls, ts) ==
    /\ events' = applyLogCalls(events, calls)
    /\ logCalls' = logCalls + Len(calls)
    /\ taskState' = IF testMode THEN runEffect(ts, events') ELSE ts

\* The "Modo Test" checkbox mounts or unmounts TestModePanel; a mounted
\* panel starts from its initial state and runs its effect once.
setTestMode ==
    /\ testMode' = ~testMode
    /\ taskState' = IF testMode' THEN runEffect(initialTaskState, events)
                    ELSE initialTaskState
    /\ UNCHANGED <<now, events, logCalls, appVars, editorVars, form, dl, three>>

\* Mutant of startDisabled: the "Iniciar" button is never disabled.
startAlwaysEnabled(st) == FALSE

\* disabled={st.running} of the "Iniciar" button
startDisabled(st) == st.running

\* Starting key keeps the tasks that are not Pending within MaxActive.
withinMaxActive(key) ==
    Cardinality({k \in TaskKeys : k = key \/ ~Pending(taskState[k])}) <= MaxActive

\* "Iniciar": startTask, unless the button is disabled.
startTask(key) ==
    /\ testMode
    /\ ~startDisabled(taskState[key])
    /\ now' \in ClockReads(now)
    /\ taskState' = runEffect(startTaskUpdater(taskState, key, now'), events)
    /\ UNCHANGED <<events, logCalls, testMode, appVars, editorVars, form, dl, three>>

\* "Reiniciar"
resetTask(key) ==
    /\ testMode
    /\ taskState' = runEffect(resetTaskUpdater(taskState, key), events)
    /\ UNCHANGED <<now, events, logCalls, testMode, appVars, editorVars, form, dl, three>>

\* handleFeedback as called by PhotoEditor through its onFeedback prop:
\* setFeedback(msg); log(type, meta)
onFeedback(type) ==
    /\ now' \in ClockReads(now)
    /\ feedback' = feedbackMsg(type)
    /\ Logged(<<LogEvent(type, now')>>, taskState)
    /\ UNCHANGED <<activeSection, testMode, view3DVars, scheduledPosts, editorVars, form, dl, three>>

\* playSound: log('click_play_sound'), then 'sound_played', or 'sound_error'
\* when the audio API throws.
playSound ==
    /\ activeSection = "designer"
    /\ \E t1 \in ClockReads(now), audioOk \in BOOLEAN :
        \E t2 \in ClockReads(t1) :
          LET type == IF audioOk THEN "sound_played" ELSE "sound_error" IN
          /\ now' = t2
          /\ feedback' = feedbackMsg(type)
          /\ Logged(<<LogEvent("click_play_sound", t1), LogEvent(type, t2)>>,
                    taskState)
    /\ UNCHANGED <<activeSection, testMode, view3DVars, scheduledPosts, editorVars, form, dl, three>>

\* onVoiceSubmit on a text that isScheduleIntent accepts (ok) or rejects.
onVoiceSubmit(ok) ==
    /\ activeSection = "designer"
    /\ \E t1 \in ClockReads(now) :
         IF ok
         THEN \E t2 \in ClockReads(t1) : \E t3 \in ClockReads(t2) :
              \E t4 \in ClockReads(t3) : \E t5 \in ClockReads(t4) :
                LET post == [id |-> ToString(t2), createdAt |-> t3,
                             title |-> DefaultTitle] IN
                /\ now' = t5
                /\ scheduledPosts' = prependPost(scheduledPosts, post)
                /\ feedback' = feedbackMsg("post_scheduled")
                /\ Logged(<<LogEvent("voice_submit", t1),
                            LogEvent("post_scheduled", t4),
                            LogEvent("post_scheduled", t5)>>, taskState)
         ELSE \E t2 \in ClockReads(t1) :
                /\ now' = t2
                /\ scheduledPosts' = scheduledPosts
                /\ feedback' = feedbackMsg("voice_match_false")
                /\ Logged(<<LogEvent("voice_submit", t1),
                            LogEvent("voice_match_false", t2)>>, taskState)
    /\ UNCHANGED <<activeSection, testMode, view3DVars, editorVars, form, dl, three>>

\* A text typed into the voice input is the sequence of the pieces its
\* single spaces separate: a piece is a word of letters, or empty where
\* two spaces meet or the text starts or ends with a space.  An accent is
\* written as an apostrophe after its letter, as in the NFD form.
VoiceTexts ==
    {<<"programar", "publicacio'n">>,
     <<"Schedule", "a", "post">>,
     <<"schedule", "post">>,
     <<"", "PROGRAMA", "un", "post", "">>,
     <<"crear", "una", "programacio'n">>,
     <<"Crear", "programacion">>,
     <<"hola">>,
     <<"post", "programar">>,
     <<"programado", "un", "post">>,
     <<"schedule", "", "post">>,
     <<"schedule", "the", "post">>,
     <<>>}

\* toLowerCase().normalize('NFD').replace(/[\u0300-\u036f]/g, '') on a word
normalizeWord(w) ==
    CASE w = "publicacio'n"  -> "publicacion"
      [] w = "programacio'n" -> "programacion"
      [] w = "PROGRAMA"     -> "programa"
      [] w = "Schedule"     -> "schedule"
      [] w = "Crear"        -> "crear"
      [] OTHER              -> w

\* trim() on a text: the empty pieces at both ends go.
RECURSIVE trimLeft(_)
trimLeft(text) ==
    IF text # <<>> /\ Head(text) = "" THEN trimLeft(Tail(text)) ELSE text

RECURSIVE trimRight(_)
trimRight(text) ==
    IF text # <<>> /\ text[Len(text)] = ""
    THEN trimRight(SubSeq(text, 1, Len(text) - 1))
    ELSE text

\* Mutant of normalize: the diacritics stay.
normalizeKeepsAccents(text) ==
    trimRight(trimLeft([i \in 1 .. Len(text) |->
                          IF text[i] \in {"publicacio'n", "programacio'n"}
                          THEN text[i] ELSE normalizeWord(text[i])]))

\* normalize: lower case, no diacritics, trimmed
normalize(text) ==
    trimRight(trimLeft([i \in 1 .. Len(text) |-> normalizeWord(text[i])]))

\* The five patterns of isScheduleIntent.  Between word boundaries a
\* pattern's word is a whole piece, and a space of the pattern is the one
\* space between two neighbouring pieces.
follows(n, i, words) == i + Len(words) <= Len(n) /\ SubSeq(n, i + 1, i + Len(words)) = words

pattern1(n) ==
    \E i, j \in 1 .. Len(n) :
       /\ i < j
       /\ n[i] \in {"programar", "programa"}
       /\ n[j] \in {"publicacion", "post"}

pattern2(n) == \E i \in 1 .. Len(n) : n[i] = "programar" /\ follows(n, i, <<"publicacion">>)

pattern3(n) == \E i \in 1 .. Len(n) : n[i] = "programar" /\ follows(n, i, <<"post">>)

pattern4(n) ==
    \E i \in 1 .. Len(n) :
       n[i] = "schedule" /\ (follows(n, i, <<"post">>) \/ follows(n, i, <<"a", "post">>))

pattern5(n) ==
    \E i \in 1 .. Len(n) :
       n[i] = "crear" /\ (follows(n, i, <<"programacion">>)
                            \/ follows(n, i, <<"una", "programacion">>))

\* isScheduleIntent: patterns.some((re) => re.test(normalize(s)))
isScheduleIntent(text) ==
    LET n == normalize(text) IN
    pattern1(n) \/ pattern2(n) \/ pattern3(n) \/ pattern4(n) \/ pattern5(n)

\* The "Enviar" button with `text` typed into the voice input.
voiceSubmit(text) == onVoiceSubmit(isScheduleIntent(text))

\* saveScheduledPost: the post is built from the form of the current
\* render and put in front; log('post_scheduled') and handleFeedback follow.
saveScheduledPost ==
    /\ activeSection = "designer"
    /\ Len(scheduledPosts) < MaxPosts
    /\ \E t1 \in ClockReads(now) : \E t2 \in ClockReads(t1) :
       \E t3 \in ClockReads(t2) : \E t4 \in ClockReads(t3) :
         LET title == IF trim(form.manualTitle) = "" THEN DefaultTitle
                      ELSE trim(form.manualTitle)
             post  == [id          |-> ToString(t1),
                       createdAt   |-> t2,
                       title       |-> title,
                       description |-> trim(form.description),
                       scheduledAt |-> getTime(form.scheduledAtLocal)]
             calls == <<LogEvent("post_scheduled", t3),
                        LogEvent("post_scheduled", t4)>> IN
         /\ now' = t4
         /\ scheduledPosts' = prependPost(scheduledPosts, post)
         /\ feedback' = "Publicacion guardada y programada"
         /\ events' = applyLogCalls(events, calls)
         /\ logCalls' = logCalls + Len(calls)
         /\ taskState' = IF testMode THEN runEffect(taskState, events')
                         ELSE taskState
    /\ UNCHANGED <<activeSection, testMode, view3DVars, editorVars, form, dl, three>>

\* Downloads of the log in all.
MaxDownloads == 2

initialDownloads == [n |-> 0, calls |-> <<>>]

\* new Date().toISOString().replace(/[:.]/g, '').slice(0, 15) at minute t
compactIso(t) ==
    CASE t = 0 -> "1970-01-01T0000"
      [] t = 1 -> "1970-01-01T0001"
      [] t = 2 -> "1970-01-01T0002"
      [] OTHER -> "1970-01-01T0003"

\* Mutant of download: the object URL is revoked before the anchor is
\* clicked.
downloadRevokesFirst ==
    /\ dl.n < MaxDownloads
    /\ \E t \in ClockReads(now) :
         LET url == dl.n + 1 IN
         /\ now' = t
         /\ dl' = [n     |-> dl.n + 1,
                   calls |-> <<[op   |-> "createObjectURL", url |-> url,
                                blob |-> [t0 |-> t0, events |-> events]],
                               [op   |-> "revokeObjectURL", url |-> url],
                               [op   |-> "click", url |-> url,
                                download |-> <<"promostudio_log_", compactIso(t), ".json">>]>>]
    /\ UNCHANGED <<events, logCalls, testMode, taskState, appVars, editorVars,
                   form, three>>

\* download: a Blob of JSON.stringify({t0, events}), createObjectURL, an
\* anchor with that href and the file name, a.click(), revokeObjectURL.
\* The session start t0 is the clock's 0; the URL is a fresh one.
download ==
    /\ dl.n < MaxDownloads
    /\ \E t \in ClockReads(now) :
         LET url == dl.n + 1 IN
         /\ now' = t
         /\ dl' = [n     |-> dl.n + 1,
                   calls |-> <<[op   |-> "createObjectURL", url |-> url,
                                blob |-> [t0 |-> t0, events |-> events]],
                               [op   |-> "click", url |-> url,
                                download |-> <<"promostudio_log_", compactIso(t), ".json">>],
                               [op   |-> "revokeObjectURL", url |-> url]>>]
    /\ UNCHANGED <<events, logCalls, testMode, taskState, appVars, editorVars,
                   form, three>>

\* ThreeCanvas is rendered when the designer section shows it.
threeMounted(section, show) == section = "designer" /\ show

\* Mutant of view3DClicked: setShow3D(false) is left out.
view3DClickedKeepsCanvas == [show3D |-> show3D, loading3D |-> TRUE]

\* onView3D: setShow3D(false); setLoading3D(true)
view3DClicked == [show3D |-> FALSE, loading3D |-> TRUE]

\* onView3D: hide the canvas, show the loader, start the 2 s timer.
onView3D ==
    /\ activeSection = "designer"
    /\ now' \in ClockReads(now)
    /\ show3D' = view3DClicked.show3D
    /\ loading3D' = view3DClicked.loading3D
    /\ timers' = timers + 1
    /\ feedback' = feedbackMsg("loader_shown")
    /\ LoggedUnbounded(<<LogEvent("loader_shown", now')>>, taskState)
    /\ UNCHANGED <<activeSection, testMode, scheduledPosts, editorVars, form, dl, three>>

\* The timer of onView3D fires.  When this mounts ThreeCanvas, its mount
\* effect calls onReady, which logs 'three_ready': a second render follows
\* the one that showed 'three_visible' to TestModePanel.
view3DTimeout ==
    /\ timers > 0
    /\ timers' = timers - 1
    /\ loading3D' = FALSE
    /\ show3D' = TRUE
    /\ feedback' = feedbackMsg("three_visible")
    /\ \E t1 \in ClockReads(now) :
         IF threeMounted(activeSection, show3D') /\ ~threeMounted(activeSection, show3D)
         THEN \E t2 \in ClockReads(t1) :
                LET visible == <<LogEvent("three_visible", t1)>>
                    ts1 == IF testMode
                           THEN runEffect(taskState, applyLogCalls(events, visible))
                           ELSE taskState IN
                /\ now' = t2
                /\ LoggedUnbounded(visible \o <<LogEvent("three_ready", t2)>>, ts1)
         ELSE /\ now' = t1
              /\ LoggedUnbounded(<<LogEvent("three_visible", t1)>>, taskState)
    /\ UNCHANGED <<activeSection, testMode, scheduledPosts, editorVars, form, dl, three>>

----------------------------------------------------------------------------
(* PhotoEditor *)

FILTERS == [none      |-> "none",
            grayscale |-> "grayscale(1)",
            sepia     |-> "sepia(0.8)",
            contrast  |-> "contrast(1.4)",
            bright    |-> "brightness(1.2)"]

\* filterCss: FILTERS.find(f => f.key === filter)?.css ?? 'none'
filterCss(filter) == IF filter \in DOMAIN FILTERS THEN FILTERS[filter] ELSE "none"

initialEditor ==
    [imageSrc          |-> None,
     crop              |-> [x |-> 0, y |-> 0],
     zoom              |-> 1,
     rotation          |-> 0,
     croppedAreaPixels |-> None,
     filter            |-> "none",
     previewUrl        |-> None]

\* Inputs of the editor's controls.
Files == {[name |-> "a.png", size |-> 4, data |-> "data:a"],
          [name |-> "b.png", size |-> 9, data |-> "data:b"]}

CropAreas == {[x |-> 0, y |-> 0, width |-> 100, height |-> 100],
              [x |-> 10, y |-> 0, width |-> 50, height |-> 80]}

CropInputs == {[x |-> 0, y |-> 0], [x |-> 5, y |-> 5]}

ZoomInputs == {1, 2}

RotationInputs == {0, 90}

FilterInputs == {"none", "sepia"}

mounted == activeSection = "designer"

Call(prop, type, meta) == [prop |-> prop, type |-> type, meta |-> meta]

\* reader.onload of onSelectFile: the state it sets
onloadUpdater(prev, file) ==
    [prev EXCEPT !.imageSrc = Some(file.data),
                 !.crop = [x |-> 0, y |-> 0],
                 !.zoom = 1,
                 !.rotation = 0,
                 !.filter = "none"]

\* A component that is no longer mounted ignores its setState calls.
setState(live, next) == IF live THEN next ELSE editor

\* onSelectFile: a FileReader starts reading the chosen file (one file is
\* read at a time).
onSelectFile(file) ==
    /\ mounted
    /\ reads = {}
    /\ reads' = {[file |-> file, live |-> TRUE]}
    /\ propCalls' = <<>>
    /\ trace' = <<>>
    /\ UNCHANGED <<editor, requests, reqCount, revoked, created, activeSection, shellVars>>

\* reader.onload
readerOnLoad(r) ==
    /\ r \in reads
    /\ editor' = setState(r.live, onloadUpdater(editor, r.file))
    /\ propCalls' = <<Call("onFeedback", "photo_upload",
                           [name |-> r.file.name, size |-> r.file.size])>>
    /\ trace' = <<>>
    /\ reads' = reads \ {r}
    /\ UNCHANGED <<requests, reqCount, revoked, created, activeSection, shellVars>>

\* The read fails: onSelectFile sets no onerror handler.
readerOnError(r) ==
    /\ r \in reads
    /\ reads' = reads \ {r}
    /\ propCalls' = <<>>
    /\ trace' = <<>>
    /\ UNCHANGED <<editor, requests, reqCount, revoked, created, activeSection, shellVars>>

\* Cropper's onCropChange (setCrop); Cropper is rendered once imageSrc is set.
onCropChange(c) ==
    /\ mounted
    /\ editor.imageSrc # None
    /\ editor.crop # c
    /\ editor' = [editor EXCEPT !.crop = c]
    /\ propCalls' = <<>>
    /\ trace' = <<>>
    /\ UNCHANGED <<reads, requests, reqCount, revoked, created, activeSection, shellVars>>

\* The zoom slider (setZoom)
onZoomChange(z) ==
    /\ mounted
    /\ editor.zoom # z
    /\ editor' = [editor EXCEPT !.zoom = z]
    /\ propCalls' = <<>>
    /\ trace' = <<>>
    /\ UNCHANGED <<reads, requests, reqCount, revoked, created, activeSection, shellVars>>

\* The rotation slider (setRotation)
onRotationChange(deg) ==
    /\ mounted
    /\ editor.rotation # deg
    /\ editor' = [editor EXCEPT !.rotation = deg]
    /\ propCalls' = <<>>
    /\ trace' = <<>>
    /\ UNCHANGED <<reads, requests, reqCount, revoked, created, activeSection, shellVars>>

\* The filter select: setFilter, onFeedback('Filtro aplicado', 'filter_change')
onFilterChange(f) ==
    /\ mounted
    /\ editor.filter # f
    /\ editor' = [editor EXCEPT !.filter = f]
    /\ propCalls' = <<Call("onFeedback", "filter_change", [filter |-> f])>>
    /\ trace' = <<>>
    /\ UNCHANGED <<reads, requests, reqCount, revoked, created, activeSection, shellVars>>

\* Mutant of cropperRendered: Cropper is rendered without an image too.
cropperAlwaysRendered(ed) == TRUE

\* {imageSrc ? <Cropper ... /> : <placeholder>}
cropperRendered(ed) == ed.imageSrc # None

\* onCropComplete, called by Cropper
onCropComplete(pixels) ==
    /\ mounted
    /\ cropperRendered(editor)
    /\ editor' = [editor EXCEPT !.croppedAreaPixels = Some(pixels)]
    /\ propCalls' = <<Call("log", "crop_change", [pixels |-> pixels])>>
    /\ trace' = <<>>
    /\ UNCHANGED <<reads, requests, reqCount, revoked, created, activeSection, shellVars>>

\* Mutant of missingInput: the committed crop area is not checked.
missingImageOnly(ed) == ed.imageSrc = None

\* disabled={!imageSrc || !croppedAreaPixels} of both buttons, and the first
\* line of both handlers
missingInput(ed) == ed.imageSrc = None \/ ed.croppedAreaPixels = None

\* onExport / onApplyCropPreview up to the await: getCroppedImg is called
\* with the values of the render the handler belongs to, and createImage
\* starts loading the image.
request(kind) ==
    /\ mounted
    /\ reqCount < MaxRequests
    /\ IF missingInput(editor)
       THEN UNCHANGED <<requests, reqCount>>
       ELSE /\ reqCount' = reqCount + 1
            /\ requests' = requests \cup
                {[id         |-> reqCount',
                  kind       |-> kind,
                  pc         |-> "decode",
                  imageSrc   |-> editor.imageSrc,
                  cropPixels |-> editor.croppedAreaPixels,
                  rotation   |-> editor.rotation,
                  cssFilter  |-> filterCss(editor.filter),
                  canvas     |-> None,
                  previewUrl |-> editor.previewUrl,
                  live       |-> TRUE]}
    /\ propCalls' = <<>>
    /\ trace' = <<>>
    /\ UNCHANGED <<editor, reads, revoked, created, activeSection, shellVars>>

onApplyCropPreview == request("preview")

onExport == request("export")

errorType(kind) == IF kind = "preview" THEN "photo_preview_error" ELSE "photo_export_error"

successType(kind) == IF kind = "preview" THEN "photo_preview_ready" ELSE "photo_exported"

\* Mutant of catch: the error is reported and the displayed preview is
\* dropped.
catchDropsPreview(r, e) ==
    /\ propCalls' = <<Call("onFeedback", errorType(r.kind), [error |-> e])>>
    /\ trace' = <<>>
    /\ editor' = [editor EXCEPT !.previewUrl = None]
    /\ UNCHANGED <<revoked, created>>

\* Mutant of catch: the error is swallowed without feedback.
catchSilent(r, e) ==
    /\ propCalls' = <<>>
    /\ trace' = <<>>
    /\ UNCHANGED <<editor, revoked, created>>

\* The catch block of onExport / onApplyCropPreview
catch(r, e) ==
    /\ propCalls' = <<Call("onFeedback", errorType(r.kind), [error |-> e])>>
    /\ trace' = <<>>
    /\ UNCHANGED <<editor, revoked, created>>

\* createImage: the image's 'error' listener rejects with the event.
imageError(r) ==
    /\ r \in requests
    /\ r.pc = "decode"
    /\ requests' = requests \ {r}
    /\ catch(r, "[object Event]")
    /\ UNCHANGED <<reads, reqCount, activeSection, shellVars>>

\* createImage once 'load' fired: the decoded image with its natural size,
\* which the data of the file determines.
createImage(url) ==
    [src    |-> url,
     width  |-> IF url = "data:a" THEN 640 ELSE 200,
     height |-> IF url = "data:a" THEN 480 ELSE 300]

\* Mutant of getCroppedImgCanvas: the canvas takes the size of the source
\* image.
canvasOfImageSize(image, cropPixels, rotationDeg, cssFilter) ==
    [width    |-> image.width,
     height   |-> image.height,
     filter   |-> cssFilter,
     rotation |-> rotationDeg]

\* getCroppedImg between getContext and toBlob: canvas.width and
\* canvas.height are set from the crop rectangle, ctx.filter from the css
\* filter, and the context is rotated about the canvas centre before
\* drawImage copies the crop rectangle of the image.
getCroppedImgCanvas(image, cropPixels, rotationDeg, cssFilter) ==
    [width    |-> cropPixels.width,
     height   |-> cropPixels.height,
     filter   |-> cssFilter,
     rotation |-> rotationDeg]

\* getCroppedImg after the image loaded: the canvas is drawn and toBlob is
\* called.  Without a 2d context it throws.
imageLoad(r, ctxOk) ==
    /\ r \in requests
    /\ r.pc = "decode"
    /\ IF ctxOk
       THEN /\ requests' = (requests \ {r}) \cup
                 {[r EXCEPT !.pc = "encode",
                            !.canvas = Some(getCroppedImgCanvas(
                                               createImage(r.imageSrc[1]),
                                               r.cropPixels[1],
                                               r.rotation,
                                               r.cssFilter))]}
            /\ propCalls' = <<>>
            /\ trace' = <<>>
            /\ UNCHANGED <<editor, revoked, created>>
       ELSE /\ requests' = requests \ {r}
            /\ catch(r, "Error: Canvas context not available")
    /\ UNCHANGED <<reads, reqCount, activeSection, shellVars>>

\* URL.revokeObjectURL(url)
revokeObjectURL(rev, url) == [rev EXCEPT ![url] = @ + 1]

\* Mutant of exportTrace: the URL is revoked before the anchor is clicked.
exportRevokesFirst(r) ==
    <<[op |-> "createObjectURL", url |-> r.id],
      [op |-> "revokeObjectURL", url |-> r.id],
      [op |-> "click", href |-> r.id, download |-> "mediaplay_edited.png"],
      [op |-> "onFeedback", type |-> "photo_exported"]>>

\* onExport after the await, in statement order: createObjectURL, an anchor
\* with href and download, a.click(), revokeObjectURL, onFeedback.
exportTrace(r) ==
    <<[op |-> "createObjectURL", url |-> r.id],
      [op |-> "click", href |-> r.id, download |-> "mediaplay_edited.png"],
      [op |-> "revokeObjectURL", url |-> r.id],
      [op |-> "onFeedback", type |-> "photo_exported"]>>

\* onApplyCropPreview after the await, in statement order: createObjectURL,
\* revokeObjectURL of the preview URL of the handler's render if it has
\* one, setPreviewUrl, onFeedback.
previewTrace(r) ==
    <<[op |-> "createObjectURL", url |-> r.id]>>
    \o (IF r.previewUrl # None
        THEN <<[op |-> "revokeObjectURL", url |-> r.previewUrl[1]]>>
        ELSE <<>>)
    \o <<[op |-> "setPreviewUrl", url |-> r.id],
         [op |-> "onFeedback", type |-> "photo_preview_ready"]>>

\* The URLs on which the calls of tr run operation op.
urlsOf(tr, op) == {tr[i].url : i \in {j \in 1 .. Len(tr) : tr[j].op = op}}

\* The calls of tr that go to the props of PhotoEditor.
propCallsOf(tr) ==
    LET fb == SelectSeq(tr, LAMBDA c : c.op = "onFeedback") IN
    [i \in 1 .. Len(fb) |-> Call("onFeedback", fb[i].type, None)]

\* The state after the calls of tr: the URLs created and revoked, and the
\* calls to the props.
afterTrace(tr) ==
    /\ trace' = tr
    /\ created' = created \cup urlsOf(tr, "createObjectURL")
    /\ revoked' = [u \in DOMAIN revoked |->
                     IF u \in urlsOf(tr, "revokeObjectURL")
                     THEN revokeObjectURL(revoked, u)[u] ELSE revoked[u]]
    /\ propCalls' = propCallsOf(tr)

\* onExport after the await
exportDone(r) ==
    /\ afterTrace(exportTrace(r))
    /\ editor' = editor

\* Mutant of previewDone: when there is a preview, the new URL is revoked
\* in place of the old one.
previewDoneRevokesNew(r) ==
    /\ afterTrace(<<[op |-> "createObjectURL", url |-> r.id]>>
                  \o (IF editor.previewUrl # None
                      THEN <<[op |-> "revokeObjectURL", url |-> r.id]>>
                      ELSE <<>>)
                  \o <<[op |-> "setPreviewUrl", url |-> r.id],
                       [op |-> "onFeedback", type |-> "photo_preview_ready"]>>)
    /\ editor' = setState(r.live, [editor EXCEPT !.previewUrl = Some(r.id)])

\* onApplyCropPreview after the await
previewDone(r) ==
    /\ afterTrace(previewTrace(r))
    /\ editor' = setState(r.live, [editor EXCEPT !.previewUrl = Some(r.id)])

\* The callback of canvas.toBlob.  A null blob makes URL.createObjectURL
\* throw inside the try block.
toBlobCallback(r, blobOk) ==
    /\ r \in requests
    /\ r.pc = "encode"
    /\ requests' = requests \ {r}
    /\ IF ~blobOk THEN catch(r, "TypeError: createObjectURL")
       ELSE IF r.kind = "export" THEN exportDone(r)
       ELSE previewDone(r)
    /\ UNCHANGED <<reads, reqCount, activeSection, shellVars>>

\* What is left of a component's pending callbacks once it is unmounted.
unmountAll(pending) == {[p EXCEPT !.live = FALSE] : p \in pending}

\* A navigation button: setActiveSection(section).  PhotoEditor is rendered
\* in the designer section only: leaving it unmounts the editor (it has no
\* cleanup effect), coming back mounts a new one.
setActiveSection(section) ==
    /\ section # activeSection
    /\ activeSection' = section
    /\ editor' = initialEditor
    /\ reads' = unmountAll(reads)
    /\ requests' = unmountAll(requests)
    /\ propCalls' = <<>>
    /\ trace' = <<>>
    /\ IF threeMounted(section, show3D)
       THEN /\ now' \in ClockReads(now)
            /\ Logged(<<LogEvent("three_ready", now')>>, taskState)
       ELSE UNCHANGED <<now, events, logCalls, taskState>>
    /\ UNCHANGED <<reqCount, revoked, created, testMode, view3DVars, feedback,
                   scheduledPosts, form, dl, three>>

----------------------------------------------------------------------------
(* ThreeCanvas *)

\* Mounts of ThreeCanvas, and animation frames requested, in all.
MaxMounts == 3

MaxFrames == 6

\* What the mount effect acquires and its cleanup has to release.
ThreeResources == {"renderer", "canvas", "geometry", "material", "observer"}

\* mounted: the component is mounted; acquired: the resources held;
\* raf: the effect's variable raf; pending: the frame requests the browser
\* still holds; nextRaf: the ids requestAnimationFrame has given out;
\* size: the renderer's size; renders: calls of renderer.render since the
\* last run of the effect; lateRenders: those made while unmounted;
\* mounts: runs of the mount effect so far; runs: those of the present
\* instance; readyCalled: readyCalledRef.current; ready: calls of onReady by
\* the present instance; readyFrames: the frames this instance had drawn
\* when it called onReady.
initialThree ==
    [mounted     |-> FALSE,
     acquired    |-> {},
     raf         |-> 0,
     pending     |-> {},
     nextRaf     |-> 0,
     size        |-> "none",
     renders     |-> 0,
     lateRenders |-> 0,
     ready       |-> 0,
     mounts      |-> 0,
     runs        |-> 0,
     readyCalled |-> FALSE,
     readyFrames |-> 0]

ContainerSizes == {"small", "large"}

threeVarsOnly ==
    <<now, events, logCalls, testMode, taskState, appVars, editorVars, form, dl>>

\* animate: rotate the cube, renderer.render, raf = requestAnimationFrame.
animateBody(th) ==
    [th EXCEPT !.renders     = @ + 1,
               !.lateRenders = IF th.mounted THEN @ ELSE @ + 1,
               !.nextRaf     = @ + 1,
               !.raf         = th.nextRaf + 1,
               !.pending     = @ \cup {th.nextRaf + 1}]

\* Mutant of mountEffect: onReady is called without looking at
\* readyCalledRef.
mountEffectUnguarded(th, size) ==
    LET acq == [th EXCEPT !.mounted  = TRUE,
                          !.mounts   = @ + 1,
                          !.runs     = @ + 1,
                          !.size     = size,
                          !.renders  = 0,
                          !.raf      = 0,
                          !.acquired = {"renderer", "canvas", "geometry", "material"}]
        run == animateBody(acq) IN
    [run EXCEPT !.ready = @ + 1,
                !.readyFrames = run.renders,
                !.readyCalled = TRUE,
                !.acquired = @ \cup {"observer"}]

\* The mount effect: renderer, canvas element, geometry and material are
\* created, animate() is called once, onReady is called unless
\* readyCalledRef says it was, a ResizeObserver is started.
mountEffect(th, size) ==
    LET acq == [th EXCEPT !.mounted  = TRUE,
                          !.mounts   = @ + 1,
                          !.runs     = @ + 1,
                          !.size     = size,
                          !.renders  = 0,
                          !.raf      = 0,
                          !.acquired = {"renderer", "canvas", "geometry", "material"}]
        run == animateBody(acq) IN
    IF ~run.readyCalled
    THEN [run EXCEPT !.ready = @ + 1,
                     !.readyFrames = run.renders,
                     !.readyCalled = TRUE,
                     !.acquired = @ \cup {"observer"}]
    ELSE [run EXCEPT !.acquired = @ \cup {"observer"}]

\* A new instance of the component: useRef(false), nothing run or called.
newInstance(th) ==
    [th EXCEPT !.readyCalled = FALSE, !.ready = 0, !.runs = 0, !.readyFrames = 0]

\* Mutant of cleanup: the frame id of the effect's own call of animate is
\* cancelled, not the latest one.
cleanupCancelsFirstFrame(th) ==
    [th EXCEPT !.pending  = @ \ {th.raf - th.renders + 1},
               !.acquired = {},
               !.mounted  = FALSE]

\* cleanupRef.current: cancelAnimationFrame(raf), ro.disconnect(), dispose
\* of geometry, material and renderer, removeChild of the canvas.
cleanup(th) ==
    [th EXCEPT !.pending  = @ \ {th.raf},
               !.acquired = (((((@ \ {"observer"}) \ {"geometry"}) \ {"material"})
                                \ {"renderer"}) \ {"canvas"}),
               !.mounted  = FALSE]

\* The parent renders <ThreeCanvas>: the mount effect runs.
threeMount(size) ==
    /\ ~three.mounted
    /\ three.mounts < MaxMounts
    /\ three.nextRaf < MaxFrames
    /\ three' = mountEffect(newInstance(three), size)
    /\ UNCHANGED threeVarsOnly

\* React runs the effect of the mounted instance again (as StrictMode does
\* after the first mount): its cleanup, then the effect, with the same refs
\* and the same container.
effectAgain ==
    /\ three.mounted
    /\ three.mounts < MaxMounts
    /\ three.nextRaf < MaxFrames
    /\ three' = mountEffect(cleanup(three), three.size)
    /\ UNCHANGED threeVarsOnly

\* The browser runs the frame callback of request id.
animate(id) ==
    /\ id \in three.pending
    /\ three.nextRaf < MaxFrames
    /\ three' = animateBody([three EXCEPT !.pending = @ \ {id}])
    /\ UNCHANGED threeVarsOnly

\* The ResizeObserver reports a new size of the container: onResize.
onResize(size) ==
    /\ "observer" \in three.acquired
    /\ three.size # size
    /\ three' = [three EXCEPT !.size = size]
    /\ UNCHANGED threeVarsOnly

\* The parent stops rendering <ThreeCanvas>: the effect's cleanup runs.
threeUnmount ==
    /\ three.mounted
    /\ three' = cleanup(three)
    /\ UNCHANGED threeVarsOnly

Init ==
    /\ now = 0
    /\ events = <<>>
    /\ logCalls = 0
    /\ activeSection = "designer"
    /\ testMode = FALSE
    /\ taskState = initialTaskState
    /\ loading3D = FALSE
    /\ show3D = FALSE
    /\ timers = 0
    /\ feedback = "Bienvenido a PromoStudio"
    /\ scheduledPosts = <<>>
    /\ editor = initialEditor
    /\ reads = {}
    /\ requests = {}
    /\ reqCount = 0
    /\ revoked = [u \in 1 .. MaxRequests |-> 0]
    /\ created = {}
    /\ propCalls = <<>>
    /\ trace = <<>>
    /\ form = initialForm
    /\ dl = initialDownloads
    /\ three = initialThree

Next ==
    \/ setTestMode
    \/ \E key \in TaskKeys : withinMaxActive(key) /\ startTask(key)
    \/ \E key \in TaskKeys : resetTask(key)
    \/ \E type \in EditorFeedbackInputs : onFeedback(type)
    \/ playSound
    \/ \E ok \in BOOLEAN : onVoiceSubmit(ok)
    \/ timers < MaxTimers /\ onView3D /\ Len(events') <= MaxLog
    \/ view3DTimeout /\ Len(events') <= MaxLog

Spec == Init /\ [][Next]_vars

\* PhotoEditor on its own: its props onFeedback and log are observed through
\* propCalls, and the shell only switches sections.  The sliders are left
\* alone, so every request is made with the initial rotation and filter.
EditorNext ==
    \/ \E file \in Files : onSelectFile(file)
    \/ \E r \in reads : readerOnLoad(r)
    \/ \E r \in reads : readerOnError(r)
    \/ \E pixels \in CropAreas : onCropComplete(pixels)
    \/ onApplyCropPreview
    \/ onExport
    \/ \E r \in requests : imageError(r)
    \/ \E r \in requests, ctxOk \in BOOLEAN : imageLoad(r, ctxOk)
    \/ \E r \in requests, blobOk \in BOOLEAN : toBlobCallback(r, blobOk)
    \/ \E section \in Sections : setActiveSection(section)

EditorSpec == Init /\ [][EditorNext]_vars

\* The callbacks of the request numbered id.
requestCallback(id) ==
    \E r \in requests :
       /\ r.id = id
       /\ \/ imageError(r)
          \/ \E ctxOk \in BOOLEAN : imageLoad(r, ctxOk)
          \/ \E blobOk \in BOOLEAN : toBlobCallback(r, blobOk)

\* One file to upload and one crop rectangle to commit.
OneFile == {CHOOSE file \in Files : TRUE}

OneCropArea == {CHOOSE pixels \in CropAreas : TRUE}

\* PhotoEditor as in EditorNext, with every upload of the same file and
\* every crop of the same rectangle.
LiveNext ==
    \/ \E file \in OneFile : onSelectFile(file)
    \/ \E r \in reads : readerOnLoad(r)
    \/ \E r \in reads : readerOnError(r)
    \/ \E pixels \in OneCropArea : onCropComplete(pixels)
    \/ onApplyCropPreview
    \/ onExport
    \/ \E r \in requests : imageError(r)
    \/ \E r \in requests, ctxOk \in BOOLEAN : imageLoad(r, ctxOk)
    \/ \E r \in requests, blobOk \in BOOLEAN : toBlobCallback(r, blobOk)
    \/ \E section \in Sections : setActiveSection(section)

\* The browser fires the load or error callback of every image and the
\* callback of every toBlob.
EditorLive ==
    /\ Init
    /\ [][LiveNext]_vars
    /\ \A id \in 1 .. MaxRequests : WF_vars(requestCallback(id))

\* PhotoEditor with its controls, in a designer section that stays shown.
ControlsNext ==
    \/ \E file \in Files : onSelectFile(file)
    \/ \E r \in reads : readerOnLoad(r)
    \/ \E c \in CropInputs : onCropChange(c)
    \/ \E z \in ZoomInputs : onZoomChange(z)
    \/ \E deg \in RotationInputs : onRotationChange(deg)
    \/ \E f \in FilterInputs : onFilterChange(f)
    \/ \E pixels \in CropAreas : onCropComplete(pixels)
    \/ onApplyCropPreview
    \/ \E r \in requests, ctxOk \in BOOLEAN : imageLoad(r, ctxOk)
    \/ \E r \in requests, blobOk \in BOOLEAN : toBlobCallback(r, blobOk)

ControlsSpec == Init /\ [][ControlsNext]_vars

\* The rasterizer's inputs: the editor of a render with an image, a
\* committed crop rectangle, a rotation of the slider and a filter of the
\* select.
RasterAreas ==
    CropAreas \cup {[x |-> 0, y |-> 0, width |-> 640, height |-> 480],
                    [x |-> 3, y |-> 7, width |-> 1, height |-> 300]}

RasterRotations == {-180, -90, 0, 45, 90, 180}

RasterInit ==
    /\ now = 0
    /\ events = <<>>
    /\ logCalls = 0
    /\ activeSection = "designer"
    /\ testMode = FALSE
    /\ taskState = initialTaskState
    /\ loading3D = FALSE
    /\ show3D = FALSE
    /\ timers = 0
    /\ feedback = "Bienvenido a PromoStudio"
    /\ scheduledPosts = <<>>
    /\ \E file \in Files, pixels \in RasterAreas,
          deg \in RasterRotations, f \in DOMAIN FILTERS :
          editor = [initialEditor EXCEPT !.imageSrc = Some(file.data),
                                         !.croppedAreaPixels = Some(pixels),
                                         !.rotation = deg,
                                         !.filter = f]
    /\ reads = {}
    /\ requests = {}
    /\ reqCount = 0
    /\ revoked = [u \in 1 .. MaxRequests |-> 0]
    /\ created = {}
    /\ propCalls = <<>>
    /\ trace = <<>>
    /\ form = initialForm
    /\ dl = initialDownloads
    /\ three = initialThree

\* onExport and onApplyCropPreview with the callbacks of getCroppedImg.
RasterNext ==
    \/ onApplyCropPreview
    \/ onExport
    \/ \E r \in requests : imageError(r)
    \/ \E r \in requests, ctxOk \in BOOLEAN : imageLoad(r, ctxOk)
    \/ \E r \in requests, blobOk \in BOOLEAN : toBlobCallback(r, blobOk)

RasterSpec == RasterInit /\ [][RasterNext]_vars

\* The scheduling form, the voice command and the log download of the
\* shell.
SchedulerNext ==
    \/ \E value \in TitleInputs : setManualTitle(value)
    \/ \E value \in DescriptionInputs : setDescription(value)
    \/ \E value \in DateInputs : setScheduledAtLocal(value)
    \/ saveScheduledPost
    \/ \E text \in VoiceTexts : voiceSubmit(text)

SchedulerSpec == Init /\ [][SchedulerNext]_vars

\* Posts made by the form, with its title input, and by voice commands.
PostsNext ==
    \/ \E value \in TitleInputs : setManualTitle(value)
    \/ saveScheduledPost
    \/ \E text \in VoiceTexts : voiceSubmit(text)

PostsSpec == Init /\ [][PostsNext]_vars

\* ThreeCanvas on its own, mounted and unmounted by its parent.
ThreeNext ==
    \/ \E size \in ContainerSizes : threeMount(size)
    \/ \E id \in 1 .. MaxFrames : animate(id)
    \/ \E size \in ContainerSizes : onResize(size)
    \/ effectAgain
    \/ threeUnmount

ThreeSpec == Init /\ [][ThreeNext]_vars

\* The log download among handlers that write the log.
DownloadNext ==
    \/ download
    \/ \E type \in EditorFeedbackInputs : onFeedback(type)
    \/ playSound

DownloadSpec == Init /\ [][DownloadNext]_vars

\* The feedback that feeds the tracker: a success event of the photo task
\* and an event no task waits for.
TrackerFeedbackInputs == {"photo_exported", "filter_change"}

\* TestModePanel with any number of its tasks started, fed by the editor's
\* feedback.
TrackerNext ==
    \/ setTestMode
    \/ \E key \in TaskKeys : startTask(key)
    \/ \E key \in TaskKeys : resetTask(key)
    \/ \E type \in TrackerFeedbackInputs : onFeedback(type)

TrackerSpec == Init /\ [][TrackerNext]_vars

\* Clicks on "Ver animacion 3D" while timers of earlier clicks are pending.
MaxPending == 2

\* The events logged by the clicks and their timers in all.
MaxViewLog == 5

\* The simulated 3D load, the navigation that hides and shows its section,
\* and the tracker's task that waits for it.
View3DNext ==
    \/ timers < MaxPending /\ onView3D /\ Len(events') <= MaxViewLog
    \/ view3DTimeout /\ Len(events') <= MaxViewLog
    \/ \E section \in Sections : setActiveSection(section)
    \/ setTestMode
    \/ startTask("three")

View3DSpec == Init /\ [][View3DNext]_vars

----------------------------------------------------------------------------
(* Claims *)

IsPrefix(s, t) == Len(s) <= Len(t) /\ SubSeq(t, 1, Len(s)) = s

\* C1: in the test-mode tracker every task's record is always in exactly
\* one of the shapes Pending, Running, Completed, and its end time is set
\* if and only if it is Completed.
C1_TaskShapes ==
    \A k \in TaskKeys :
       LET st == taskState[k] IN
       /\ Pending(st) \/ Running(st) \/ Completed(st)
       /\ (st.endT # None) <=> Completed(st)

C1_Witness ==
    \E k \in TaskKeys :
       /\ testMode
       /\ Completed(taskState[k])
       /\ Len(events) > 0
       /\ Last(events).type \notin successEvents(k)

\* C2: start(key) on a Pending or Completed task makes it Running with
\* start time = now and the end time cleared (events already in the log do
\* not complete it), and a Running task stops being Running only by a reset
\* or by an event of its success set appended to the log.
C2_StartMakesRunning ==
    [][\A k \in TaskKeys :
         /\ startTask(k) =>
               taskState'[k] = TaskState(TRUE, Some(now'), None)
         /\ (testMode /\ testMode' /\ Running(taskState[k])
                /\ ~Running(taskState'[k])) =>
               \/ Pending(taskState'[k])
               \/ \E i \in Len(events) + 1 .. Len(events') :
                     events'[i].type \in successEvents(k)]_vars

\* The new entries of the log after a step, and the first of them whose
\* type is in the success set of task k.
newEntries == Len(events) + 1 .. Len(events')

matches(k) == {i \in newEntries : events'[i].type \in successEvents(k)}

firstMatch(k) == CHOOSE i \in matches(k) : \A j \in matches(k) : i <= j

\* C3: every event appended while a task is Running whose type is in the
\* task's success set completes the task, and the end time recorded is the
\* timestamp of the first such event, also when further events are appended
\* before the tracker observes the log.
C3_FirstMatchRecorded ==
    [][\A k \in TaskKeys :
         (testMode /\ testMode' /\ Running(taskState[k]) /\ matches(k) # {}) =>
            /\ Completed(taskState'[k])
            /\ taskState'[k].endT = Some(events'[firstMatch(k)].t)]_vars

\* C4: reset(key) leaves the task Pending from any state, and a Pending
\* task stays Pending, whatever events are appended, until start is called
\* for it.
C4_ResetToPending ==
    [][\A k \in TaskKeys :
         /\ resetTask(k) => Pending(taskState'[k])
         /\ (Pending(taskState[k]) /\ ~Pending(taskState'[k])) => startTask(k)]_vars

\* A completed task whose success event is still the last of the log, on
\* which reset acts and gives Pending.
C4_Witness ==
    \E k \in TaskKeys :
       /\ testMode
       /\ Completed(taskState[k])
       /\ Len(events) > 0
       /\ Last(events).type \in successEvents(k)
       /\ ENABLED (resetTask(k) /\ Pending(taskState'[k]))

\* C5: the event log is append-only: N calls of log() give N entries (also
\* for several calls inside one handler), and a step changes no existing
\* entry.
C5_AppendOnly ==
    /\ [](Len(events) = logCalls)
    /\ [][IsPrefix(events, events')]_vars

C5_Witness ==
    /\ Len(events) = MaxLog
    /\ logCalls = MaxLog
    /\ \E i \in 1 .. Len(events) : events[i].type = "voice_submit"

\* C6: the reader.onload of an upload resets the whole editor state: new
\* image source, crop (0,0), zoom 1, rotation 0, filter 'none', no
\* committed crop area, no preview URL.
C6_UploadResetsAll ==
    [][\A r \in reads :
         (r.live /\ readerOnLoad(r)) =>
            editor' = [initialEditor EXCEPT !.imageSrc = Some(r.file.data)]]_vars

\* C7: preview and export run only with an image and a committed crop
\* area: every request that reached getCroppedImg holds both; while the
\* buttons of the mounted editor are disabled (one of the two is missing)
\* it has no request in flight and shows no preview; and a handler invoked
\* in that situation starts no rasterization, creates and revokes no object
\* URL and calls neither onFeedback nor log.
C7_RequestsHaveInputs ==
    /\ [](\A r \in requests : r.imageSrc # None /\ r.cropPixels # None)
    /\ []((mounted /\ missingInput(editor)) =>
             /\ \A r \in requests : ~r.live
             /\ editor.previewUrl = None)
    /\ [][(missingInput(editor) /\ (onApplyCropPreview \/ onExport)) =>
             /\ requests' = requests
             /\ created' = created
             /\ revoked' = revoked
             /\ propCalls' = <<>>]_vars

C7_Witness ==
    \E r \in requests : r.pc = "encode" /\ r.live

displayed(u) == mounted /\ editor.previewUrl = Some(u)

\* C8: every object URL the editor created is revoked exactly once: never
\* twice, and never left unrevoked once it is no longer the displayed
\* preview (replaced, or the editor unmounted).
C8_RevokedExactlyOnce ==
    \A u \in created :
       /\ revoked[u] <= 1
       /\ ~displayed(u) => revoked[u] = 1

ErrorTypes == {"photo_preview_error", "photo_export_error"}

SuccessTypes == {"photo_preview_ready", "photo_exported"}

rasterFailure(r) ==
    imageError(r) \/ imageLoad(r, FALSE) \/ toBlobCallback(r, FALSE)

\* C9: a failure while rasterizing is caught in the handler: it makes
\* exactly one error feedback of the handler's kind carrying the error as a
\* string, no success feedback, and leaves the editor state and every
\* object URL as they were.
C9_FailureIsCaught ==
    [][\A r \in requests :
         rasterFailure(r) =>
            /\ Len(propCalls') = 1
            /\ propCalls'[1].prop = "onFeedback"
            /\ propCalls'[1].type = errorType(r.kind)
            /\ propCalls'[1].meta.error \in
                  {"[object Event]", "Error: Canvas context not available",
                   "TypeError: createObjectURL"}
            /\ editor' = editor
            /\ revoked' = revoked
            /\ created' = created]_vars

C9_Witness ==
    /\ mounted
    /\ editor.previewUrl # None
    /\ Len(propCalls) = 1
    /\ propCalls[1].type = "photo_preview_error"

inFlight(id) == \E r \in requests : r.id = id

finished(id) == id <= reqCount /\ ~inFlight(id)

\* C10: every preview or export request made with an image and a crop area
\* eventually finishes, and the step that finishes it makes exactly one
\* feedback call, the success or the error of its kind; a request still in
\* flight makes none.
C10_OneOutcome ==
    /\ \A id \in 1 .. MaxRequests : inFlight(id) ~> finished(id)
    /\ [][\A r \in requests :
            /\ (inFlight(r.id)' /\ requestCallback(r.id)) => propCalls' = <<>>
            /\ (~inFlight(r.id)') =>
                  /\ Len(propCalls') = 1
                  /\ propCalls'[1].prop = "onFeedback"
                  /\ propCalls'[1].type \in {successType(r.kind), errorType(r.kind)}]_vars

C10_Witness ==
    /\ reqCount = MaxRequests
    /\ requests = {}
    /\ created # {}
    /\ Len(propCalls) = 1
    /\ propCalls[1].type \in ErrorTypes

\* C11: for every crop rectangle of width W and height H, every rotation
\* and every filter, the canvas getCroppedImg hands to toBlob is exactly W
\* by H, whatever the size of the source image.
C11_CanvasIsCropSize ==
    \A r \in requests :
       r.pc = "encode" =>
          /\ r.canvas # None
          /\ r.canvas[1].width = r.cropPixels[1].width
          /\ r.canvas[1].height = r.cropPixels[1].height

\* A rotated, filtered crop whose size differs from the image's.
C11_Witness ==
    \E r \in requests :
       /\ r.pc = "encode"
       /\ r.rotation = 45
       /\ r.cssFilter = "sepia(0.8)"
       /\ r.canvas[1].width # createImage(r.imageSrc[1]).width
       /\ r.canvas[1].height # createImage(r.imageSrc[1]).height

\* C12: save puts exactly one post at the front of the list; its title is
\* the trimmed title input, or the placeholder when that is empty, its
\* description the trimmed description, and its scheduledAt the instant
\* of the local date-time of the date input, a number, for every input.
C12_SaveAddsPost ==
    [][saveScheduledPost =>
          LET post == Head(scheduledPosts') IN
          /\ Len(scheduledPosts') = Len(scheduledPosts) + 1
          /\ Tail(scheduledPosts') = scheduledPosts
          /\ post.title = (IF trim(form.manualTitle) = "" THEN DefaultTitle
                            ELSE trim(form.manualTitle))
          /\ post.title \in {DefaultTitle, "Test Post"}
          /\ post.description = trim(form.description)
          /\ post.description \in {"", "x"}
          /\ post.scheduledAt # NaN
          /\ post.scheduledAt = getTime(form.scheduledAtLocal)]_vars

IsSuffix(s, t) == Len(s) <= Len(t) /\ SubSeq(t, Len(t) - Len(s) + 1, Len(t)) = s

\* A step that creates a post: a save, or a voice command that is a
\* schedule intent.
creation ==
    \/ saveScheduledPost
    \/ \E text \in VoiceTexts : isScheduleIntent(text) /\ voiceSubmit(text)

C14_DistinctIds ==
    \A i, j \in 1 .. Len(scheduledPosts) :
       i # j => scheduledPosts[i].id # scheduledPosts[j].id

\* The texts that are schedule intents: a form of "programar" before
\* "publicacion" or "post", "schedule (a) post", "crear (una)
\* programacion", in any case, with or without accents and outer spaces.
ScheduleTexts ==
    {<<"programar", "publicacio'n">>,
     <<"Schedule", "a", "post">>,
     <<"schedule", "post">>,
     <<"", "PROGRAMA", "un", "post", "">>,
     <<"crear", "una", "programacio'n">>,
     <<"Crear", "programacion">>}

C16_UnmountReleasesAll ==
    /\ three.lateRenders = 0
    /\ ~three.mounted => three.pending = {} /\ three.acquired = {}
    /\ three.mounted => three.acquired = ThreeResources

\* Unmounted for the second time after the loop had redrawn several times.
C16_Witness ==
    /\ ~three.mounted
    /\ three.mounts >= 2
    /\ three.renders >= 3

uploadMeta(file) == [name |-> file.name, size |-> file.size]

hasCall(calls, c) == \E i \in 1 .. Len(calls) : calls[i] = c

\* C17: when a selected file has been read, the editor reports the upload
\* through both props: it calls onFeedback with 'photo_upload' and the
\* file's name and size, and it calls log with 'photo_upload' and the same
\* name and size.
C17_UploadReportedTwice ==
    [][\A r \in reads :
         readerOnLoad(r) =>
            /\ hasCall(propCalls', Call("onFeedback", "photo_upload", uploadMeta(r.file)))
            /\ hasCall(propCalls', Call("log", "photo_upload", uploadMeta(r.file)))]_vars

\* C18: the timestamps of the event log never decrease in log order and
\* none is earlier than the session start t0, so the relative time t - t0
\* of every entry is at least zero.
C18_TimestampsOrdered ==
    \A i \in 1 .. Len(events) :
       /\ events[i].t - t0 >= 0
       /\ i < Len(events) => events[i].t <= events[i + 1].t

\* A full log whose first and last entries were made at different times.
C18_Witness ==
    /\ Len(events) >= MaxLog
    /\ events[1].t < Last(events).t

\* C19: a log download has no lasting effect on the application's state:
\* the event log and the rest of the state are as before, and the browser
\* calls it makes are createObjectURL, the anchor's click and
\* revokeObjectURL, in this order, all three on the one URL it created.
C19_DownloadLeavesNoTrace ==
    [][dl'.n # dl.n =>
         /\ events' = events
         /\ logCalls' = logCalls
         /\ <<testMode, taskState, appVars, editorVars, form, three>>' =
               <<testMode, taskState, appVars, editorVars, form, three>>
         /\ Len(dl'.calls) = 3
         /\ dl'.calls[1].op = "createObjectURL"
         /\ dl'.calls[1].blob.events = events
         /\ dl'.calls[2].op = "click"
         /\ dl'.calls[2].url = dl'.calls[1].url
         /\ dl'.calls[3].op = "revokeObjectURL"
         /\ dl'.calls[3].url = dl'.calls[1].url]_vars

\* The second download of a session, of a log that holds events.
C19_Witness ==
    /\ dl.n = 2
    /\ Len(dl.calls) = 3
    /\ dl.calls[1].blob.events # <<>>
    /\ events = dl.calls[1].blob.events

previewSucceeds(r) ==
    r.kind = "preview" /\ r.live /\ toBlobCallback(r, TRUE)

\* C20: when a preview render succeeds, the object URL of the preview
\* displayed at that moment, if there is one, is revoked, and the new URL
\* becomes the displayed preview, also when two preview requests are in
\* flight together and complete one after the other.
C20_DisplayedPreviewRevoked ==
    [][\A r \in requests :
         previewSucceeds(r) =>
            /\ editor'.previewUrl = Some(r.id)
            /\ \A u \in created :
                  editor.previewUrl = Some(u) => revoked'[u] = revoked[u] + 1]_vars

\* C21: an event appended to the log while a task is Pending or Completed
\* leaves the task's running flag, start time and end time as they were,
\* whatever the type of the event: a Completed task keeps its end time.
C21_IdleTaskIgnoresEvents ==
    [][\A k \in TaskKeys :
         (/\ events' # events
          /\ Pending(taskState[k]) \/ Completed(taskState[k])) =>
            taskState'[k] = taskState[k]]_vars

\* A Completed task and a later event of one of its success types.
C21_Witness ==
    \E k \in TaskKeys :
       /\ Completed(taskState[k])
       /\ Len(events) >= 2
       /\ Last(events).type \in successEvents(k)
       /\ Last(events).t > taskState[k].endT[1]

\* C22: starting a task that is already Running changes nothing: its
\* "Iniciar" button is disabled, so a Running task stays Running with the
\* start time of the start that made it Running until it is completed
\* (with that start time) or reset.
C22_RunningKeepsStart ==
    [][\A k \in TaskKeys :
         Running(taskState[k]) =>
            \/ taskState'[k] = taskState[k]
            \/ Pending(taskState'[k])
            \/ /\ Completed(taskState'[k])
               /\ taskState'[k].startT = taskState[k].startT]_vars

\* A task still Running after the clock has moved on and the log has grown.
C22_Witness ==
    \E k \in TaskKeys :
       /\ Running(taskState[k])
       /\ startDisabled(taskState[k])
       /\ now > taskState[k].startT[1]
       /\ events # <<>>
       /\ Last(events).t > taskState[k].startT[1]

others(k) == TaskKeys \ {k}

\* C23: the four tasks are independent: a start, a reset or an automatic
\* completion of one task leaves the records of the other three as they
\* were, and whether a task can be started or reset does not depend on the
\* other tasks: "Iniciar" works exactly while the task itself is not
\* running, "Reiniciar" always.
C23_TasksIndependent ==
    /\ [](\A k \in TaskKeys :
            /\ (ENABLED startTask(k)) = (testMode /\ ~taskState[k].running)
            /\ (ENABLED resetTask(k)) = testMode)
    /\ [][\A k \in TaskKeys :
            (\/ startTask(k)
             \/ resetTask(k)
             \/ Running(taskState[k]) /\ Completed(taskState'[k])) =>
               \A j \in others(k) : taskState'[j] = taskState[j]]_vars

\* One task Completed and another Running while a third was reset.
C23_Witness ==
    /\ Completed(taskState["photo_edit"])
    /\ Running(taskState["sound"])
    /\ Pending(taskState["voice"])
    /\ Running(taskState["three"])

\* C24: the elapsed time shown for a task is 0 when it has not been
\* started, now - start while it is Running, and end - start once it is
\* Completed, whatever the clock shows then.
C24_ElapsedShown ==
    \A k \in TaskKeys : \A t \in now .. MaxTime :
       LET st == taskState[k] IN
       /\ st.startT = None => elapsedMs(st, t) = 0
       /\ Running(st) => elapsedMs(st, t) = t - st.startT[1]
       /\ Completed(st) => elapsedMs(st, t) = st.endT[1] - st.startT[1]

\* A task completed before now next to a task that is still running.
C24_Witness ==
    /\ Completed(taskState["photo_edit"])
    /\ now > taskState["photo_edit"].endT[1]
    /\ Running(taskState["sound"])
    /\ elapsedMs(taskState["sound"], now) > 0

exportSucceeds(r) == r.kind = "export" /\ toBlobCallback(r, TRUE)

\* C25: a successful export makes its calls in this order: one object URL
\* is created for the blob, an anchor with that URL that downloads
\* 'mediaplay_edited.png' is clicked, the URL is revoked, and then
\* 'photo_exported' is reported through onFeedback, once.
C25_ExportOrder ==
    [][\A r \in requests :
         exportSucceeds(r) =>
            \E u \in (1 .. MaxRequests) \ created :
               /\ Len(trace') = 4
               /\ trace'[1] = [op |-> "createObjectURL", url |-> u]
               /\ trace'[2].op = "click"
               /\ trace'[2].href = u
               /\ trace'[2].download = "mediaplay_edited.png"
               /\ trace'[3] = [op |-> "revokeObjectURL", url |-> u]
               /\ trace'[4].op = "onFeedback"
               /\ trace'[4].type = "photo_exported"
               /\ created' = created \cup {u}
               /\ revoked'[u] = 1
               /\ propCalls' = <<Call("onFeedback", "photo_exported", None)>>]_vars

\* The second request of the editor was an export and has just succeeded.
C25_Witness ==
    /\ Len(trace) = 4
    /\ trace[2].op = "click"
    /\ trace[1].url = 2
    /\ Len(propCalls) = 1
    /\ propCalls[1].type = "photo_exported"

\* C26: a mounted 3D preview instance has called onReady exactly once, in
\* its first effect run after the first frame was drawn, and an instance
\* never calls it a second time, however often its effect runs again.
C26_ReadyOnce ==
    /\ three.ready <= 1
    /\ three.mounted => three.ready = 1 /\ three.readyFrames = 1
    /\ three.runs >= 1 => three.ready = 1

\* An instance whose effect has run again and which has gone on drawing.
C26_Witness ==
    /\ three.mounted
    /\ three.runs >= 2
    /\ three.renders >= 2
    /\ three.ready = 1

\* C27: whenever a task is Completed its end time is not earlier than its
\* start time, so that the elapsed time end - start is never negative.
C27_EndNotBeforeStart ==
    \A k \in TaskKeys :
       Completed(taskState[k]) =>
          /\ taskState[k].endT[1] >= taskState[k].startT[1]
          /\ elapsedMs(taskState[k], now) >= 0

\* C28: the preview URL the editor displays is never a revoked URL, in any
\* state and under any interleaving of preview and export requests.
C28_DisplayedNotRevoked ==
    \A u \in created : displayed(u) => revoked[u] = 0

\* A second preview is displayed and the one it replaced has been revoked.
C28_Witness ==
    /\ displayed(2)
    /\ created = {1, 2}
    /\ revoked[1] = 1

\* C29: in the photo editor a committed crop area implies a loaded image:
\* the committed crop area is non-null only if the image source is
\* non-null.
C29_CropImpliesImage ==
    editor.croppedAreaPixels # None => editor.imageSrc # None

\* A crop area committed on a loaded image, kept while the next file is
\* being read.
C29_Witness ==
    /\ editor.croppedAreaPixels # None
    /\ editor.imageSrc # None
    /\ reads # {}

loaderShown == activeSection = "designer" /\ loading3D

canvasShown == threeMounted(activeSection, show3D)

\* C30: the loading indicator and the 3D canvas are never shown at the same
\* time, however the clicks on "view 3D" and their timers interleave: a
\* click hides the canvas as it shows the loader, a timer hides the loader
\* as it shows the canvas.
C30_LoaderXorCanvas ==
    /\ ~(loaderShown /\ canvasShown)
    /\ ~(loading3D /\ show3D)

\* Two clicks, and the timer of one of them has fired while the timer of
\* the other is pending: the canvas is shown.
C30_Witness ==
    /\ canvasShown
    /\ timers = 1
    /\ Len(SelectSeq(events, LAMBDA e : e.type = "loader_shown")) = 2
    /\ Last(events).type = "three_ready"

====
